---- MODULE Spec2Model ----
(***************************************************************************)
(* Model of src/parse_woff_font.py: the glyph rasterizer                   *)
(* convert_cmap_to_image (wrapped in functools.lru_cache) and the batch    *)
(* extractor extract_text_from_font.                                       *)
(*                                                                         *)
(* Four specifications share the variables:                                *)
(*   SpecCrop    the crop geometry of convert_cmap_to_image (lines 68-94)  *)
(*   SpecRender  one process calling convert_cmap_to_image directly while  *)
(*               the font file changes underneath it                       *)
(*   SpecExtract one process running extract_text_from_font, statement by  *)
(*               statement, several calls in a row                         *)
(*   SpecShared  two processes running extract_text_from_font on the same  *)
(*               font with the same cache directory                        *)
(*                                                                         *)
(* Pixels are not modelled.  A bitmap is the object a rasterization        *)
(* creates: it carries a serial number (object identity) and the arguments *)
(* it was rendered from.                                                   *)
(***************************************************************************)
EXTENDS Integers, Sequences, FiniteSets, TLC

VARIABLES
    fontState,  \* the font file on disk: "missing", "corrupt" or "ok"
    cmap,       \* font.getBestCmap() of the file: sequence of <<code, glyph name>>
    cache,      \* per process: the lru_cache of convert_cmap_to_image, oldest first
    made,       \* per process: number of bitmaps convert_cmap_to_image has returned
    log,        \* history: the successful direct calls, in order: [args, img]
    lastCall,   \* history: the most recent direct call of convert_cmap_to_image
    cropIn,     \* SpecCrop: [size, bbox] handed to the crop computation
    cropOut,    \* SpecCrop: what lines 68-94 computed from cropIn
    pc,         \* per process: position inside extract_text_from_font
    call,       \* per process: the arguments of the running call
    calls,      \* per process: number of extract_text_from_font calls started
    idx,        \* per process: enumerate() index of the current entry (1-based)
    font_map,   \* per process: the dict being built (function on its key set)
    image,      \* per process: the local `image` (0: unset)
    text,       \* per process: the local `text`
    hist,       \* per process, history: what happened to each entry in this call
    result,     \* per process: outcome of the call
    dirExists,  \* os.path.exists(cache_dir)
    files,      \* the cache directory: file name -> [img, writes]
    inFlight    \* per process: classification calls begun and not yet ended

vars == <<fontState, cmap, cache, made, log, lastCall, cropIn, cropOut, pc, call,
          calls, idx, font_map, image, text, hist, result, dirExists, files, inFlight>>

renderVars  == <<log, lastCall>>
cropVars    == <<cropIn, cropOut>>
extractVars == <<pc, call, calls, idx, font_map, image, text, hist, result,
                 dirExists, files, inFlight>>

----------------------------------------------------------------------------
(* Bounds and constants *)

\* functools.lru_cache(maxsize=128), scaled down so that eviction is reachable
maxsize == 2
\* default of img_size / image_size
DefaultSize == 1024
\* direct calls of convert_cmap_to_image explored by SpecRender
MaxCalls == 5
\* largest img_size explored by SpecCrop
MaxImgSize == 10
\* longest character map explored
MaxEntries == 2
\* extract_text_from_font calls one process makes in a row
MaxExtractCalls == 2

Procs == {"p1", "p2"}
FontPath == "font.woff2"
CacheDir == "font_cache"
Codes == {-1, 0, 1}
ExplicitSizes == {1024}
GlyphNames == {"uniE001", "uniE002"}
Texts == {"", "7"}
None == "None"

Max2(a, b) == IF a >= b THEN a ELSE b
Min2(a, b) == IF a <= b THEN a ELSE b

----------------------------------------------------------------------------
(* Crop geometry: convert_cmap_to_image lines 46, 68-94 *)

NoBox == <<>>

\* the values Image.getbbox() can return on a canvas of side 2*size
BBoxes(size) ==
    { <<l, t, r, b>> : l \in 0..(2*size), t \in 0..(2*size),
                       r \in 0..(2*size), b \in 0..(2*size) }

NonEmptyBoxes(size) == { B \in BBoxes(size) : B[1] < B[3] /\ B[2] < B[4] }

\* variant: the padding is left out of half_size
CropRegionNoPad(bbox, img_size) ==
    LET temp_size == img_size * 2
        center_x  == (bbox[1] + bbox[3]) \div 2
        center_y  == (bbox[2] + bbox[4]) \div 2
        half_size == Max2(bbox[3] - bbox[1], bbox[4] - bbox[2]) \div 2
    IN  << Max2(0, center_x - half_size),
           Max2(0, center_y - half_size),
           Min2(temp_size, center_x + half_size),
           Min2(temp_size, center_y + half_size) >>

\* lines 71-85: the crop rectangle <<crop_left, crop_top, crop_right, crop_bottom>>
CropRegion(bbox, img_size) ==
    LET temp_size == img_size * 2
        padding   == img_size \div 10
        left      == bbox[1]
        top       == bbox[2]
        right     == bbox[3]
        bottom    == bbox[4]
        width     == right - left
        height    == bottom - top
        center_x  == (left + right) \div 2
        center_y  == (top + bottom) \div 2
        half_size == Max2(width, height) \div 2 + padding
    IN  << Max2(0, center_x - half_size),
           Max2(0, center_y - half_size),
           Min2(temp_size, center_x + half_size),
           Min2(temp_size, center_y + half_size) >>

\* lines 68-94: the final image: its dimensions, and the crop it was cut from
FinalImage(bbox, img_size) ==
    IF bbox # NoBox
    THEN [blank |-> FALSE, crop |-> CropRegion(bbox, img_size),
          dims  |-> <<img_size, img_size>>]
    ELSE [blank |-> TRUE, crop |-> NoBox, dims |-> <<img_size, img_size>>]

NoCrop == [blank |-> TRUE, crop |-> NoBox, dims |-> <<0, 0>>]

Rasterize ==
    /\ cropOut = NoCrop
    /\ cropOut' = FinalImage(cropIn.bbox, cropIn.size)
    /\ UNCHANGED <<cropIn, fontState, cmap, cache, made, renderVars, extractVars>>

----------------------------------------------------------------------------
(* convert_cmap_to_image behind functools.lru_cache *)

\* the positional arguments of a call: <<cmap_code, font_path>> (img_size left to
\* its default) or <<cmap_code, font_path, img_size>>
ArgTuples ==
    { <<c, FontPath>> : c \in Codes } \cup
    { <<c, FontPath, s>> : c \in Codes, s \in ExplicitSizes }

\* line 23: the img_size the body sees
EffSize(a) == IF Len(a) = 3 THEN a[3] ELSE DefaultSize

NoImg == [id |-> 0, code |-> 0, size |-> 0]

\* what the file system and the font library do during one run of the body:
\* ImageFont.truetype raises (line 51), final_img.save("./imgs/<code>.png")
\* raises (line 96), or both succeed
IoOutcomes == {"ok", "load_fail", "save_fail"}

\* lines 39-97: the undecorated body.  fs is the state of the font file, io the
\* outcome of its I/O, id the serial number of the bitmap object it would
\* create.  raster: the drawing code (58-94) ran.
ConvertBody(a, fs, io, id) ==
    IF fs = "missing"
    THEN [err |-> "FileNotFoundError", img |-> NoImg, raster |-> FALSE]   \* 39-40
    ELSE IF a[1] < 0
    THEN [err |-> "ValueError", img |-> NoImg, raster |-> FALSE]          \* 42-43
    ELSE IF fs = "corrupt" \/ io = "load_fail"
    THEN [err |-> "ValueError", img |-> NoImg, raster |-> FALSE]          \* 50-53
    ELSE IF io = "save_fail"
    THEN [err |-> "OSError", img |-> NoImg, raster |-> TRUE]              \* 96
    ELSE [err |-> "none", raster |-> TRUE,
          img |-> [id |-> id, code |-> a[1], size |-> EffSize(a)]]        \* 97

\* lru_cache keys a call by the argument tuple as passed
MakeKey(a) == a

Find(c, k) ==
    IF \E i \in 1..Len(c) : c[i].key = k
    THEN CHOOSE i \in 1..Len(c) : c[i].key = k
    ELSE 0

Remove(c, i) == SubSeq(c, 1, i - 1) \o SubSeq(c, i + 1, Len(c))

\* variant: a hit leaves the order alone (first-in first-out eviction)
TouchNone(c, i) == c

\* a hit makes the entry the most recently used
Touch(c, i) == Remove(c, i) \o <<c[i]>>

\* a miss that returned stores the result, evicting the least recently used
\* entry when the cache is full
Insert(c, k, img) ==
    (IF Len(c) >= maxsize THEN Tail(c) ELSE c) \o <<[key |-> k, img |-> img]>>

\* line 22: one call through the decorator.  An exception of the body
\* propagates and nothing is stored.
CachedCall(c, a, fs, io, id) ==
    LET i == Find(c, MakeKey(a)) IN
    IF i # 0
    THEN [cache |-> Touch(c, i), hit |-> TRUE,
          out |-> [err |-> "none", img |-> c[i].img, raster |-> FALSE]]
    ELSE LET out == ConvertBody(a, fs, io, id) IN
         [cache |-> IF out.err = "none" THEN Insert(c, MakeKey(a), out.img) ELSE c,
          hit |-> FALSE, out |-> out]

NoCall == [args |-> <<>>, font |-> "ok", hit |-> FALSE, raster |-> FALSE,
           saved |-> FALSE, err |-> "none", img |-> NoImg]

\* a direct call convert_cmap_to_image(*a) by process p
RenderCall(p, a) ==
    /\ Len(log) < MaxCalls
    /\ \E io \in IoOutcomes :
         LET r == CachedCall(cache[p], a, fontState, io, made[p] + 1) IN
         /\ cache' = [cache EXCEPT ![p] = r.cache]
         /\ made' = [made EXCEPT ![p] = IF r.out.err = "none" /\ ~r.hit THEN @ + 1 ELSE @]
         /\ log' = IF r.out.err = "none"
                   THEN Append(log, [args |-> a, img |-> r.out.img])
                   ELSE log
         /\ lastCall' = [args |-> a, font |-> fontState, hit |-> r.hit,
                         raster |-> r.out.raster,
                         saved |-> r.out.raster /\ io = "ok",
                         err |-> r.out.err, img |-> r.out.img]
    /\ UNCHANGED <<fontState, cmap, cropVars, extractVars>>

\* the environment replaces, corrupts or deletes the font file
SetFont(s) ==
    /\ s # fontState
    /\ fontState' = s
    /\ UNCHANGED <<cmap, cache, made, renderVars, cropVars, extractVars>>

----------------------------------------------------------------------------
(* extract_text_from_font, statement by statement *)

EmptyMap == [g \in {} |-> ""]

\* dict assignment m[k] = v
Put(m, k, v) == [x \in DOMAIN m \cup {k} |-> IF x = k THEN v ELSE m[x]]

\* line 156: os.path.join(cache_dir, f"{ord(chr(code))}_{glyph_name}.png")
CachePath(code, glyph) == <<code, glyph>>

NoFile == [img |-> NoImg, writes |-> 0]

Fresh == [renders |-> 0, render |-> "none", write |-> "none",
          classifies |-> 0, classify |-> "none", text |-> "", done |-> FALSE]

Entry(p) == cmap[idx[p]]

Note(p, field, v) == [hist EXCEPT ![p][idx[p]][field] = v]

Raise(p, exc) ==
    /\ pc' = [pc EXCEPT ![p] = "raised"]
    /\ result' = [result EXCEPT ![p] = exc]

\* a caller invokes extract_text_from_font(font_path, image_size, cache_dir=dir)
Start(p, size, dir) ==
    /\ pc[p] \in {"idle", "returned", "raised"}
    /\ calls[p] < MaxExtractCalls
    /\ calls' = [calls EXCEPT ![p] = @ + 1]
    /\ call' = [call EXCEPT ![p] =
                   [font_path |-> FontPath, image_size |-> size, cache_dir |-> dir]]
    /\ pc' = [pc EXCEPT ![p] = "check"]
    /\ idx' = [idx EXCEPT ![p] = 0]
    /\ font_map' = [font_map EXCEPT ![p] = EmptyMap]
    /\ image' = [image EXCEPT ![p] = NoImg]
    /\ text' = [text EXCEPT ![p] = ""]
    /\ hist' = [hist EXCEPT ![p] = <<>>]
    /\ result' = [result EXCEPT ![p] = "none"]
    /\ UNCHANGED <<fontState, cmap, cache, made, renderVars, cropVars,
                   dirExists, files, inFlight>>

\* lines 124-125
CheckFont(p) ==
    /\ pc[p] = "check"
    /\ IF fontState = "missing"
       THEN Raise(p, "FileNotFoundError")
       ELSE pc' = [pc EXCEPT ![p] = "mkdir"] /\ UNCHANGED result
    /\ UNCHANGED <<fontState, cmap, cache, made, renderVars, cropVars, call, calls,
                   idx, font_map, image, text, hist, dirExists, files, inFlight>>

\* lines 128-129: os.makedirs may fail
MakeCacheDir(p) ==
    /\ pc[p] = "mkdir"
    /\ IF call[p].cache_dir # None /\ ~dirExists
       THEN \E ok \in BOOLEAN :
              IF ok
              THEN /\ dirExists' = TRUE
                   /\ pc' = [pc EXCEPT ![p] = "load"]
                   /\ UNCHANGED result
              ELSE /\ Raise(p, "OSError")
                   /\ UNCHANGED dirExists
       ELSE /\ pc' = [pc EXCEPT ![p] = "load"]
            /\ UNCHANGED <<result, dirExists>>
    /\ UNCHANGED <<fontState, cmap, cache, made, renderVars, cropVars, call, calls,
                   idx, font_map, image, text, hist, files, inFlight>>

\* variant: a font that does not parse is treated as an empty-handed success
LoadFontLenient(p) ==
    /\ pc[p] = "load"
    /\ pc' = [pc EXCEPT ![p] = "ocr"]
    /\ hist' = [hist EXCEPT ![p] = [i \in 1..Len(cmap) |-> Fresh]]
    /\ UNCHANGED <<fontState, cmap, cache, made, renderVars, cropVars, call, calls,
                   idx, font_map, image, text, result, dirExists, files, inFlight>>

\* lines 131-137: TTFont(font_path), font.getBestCmap()
LoadFont(p) ==
    /\ pc[p] = "load"
    /\ IF fontState # "ok"
       THEN Raise(p, "ValueError") /\ UNCHANGED hist
       ELSE /\ pc' = [pc EXCEPT ![p] = "ocr"]
            /\ hist' = [hist EXCEPT ![p] = [i \in 1..Len(cmap) |-> Fresh]]
            /\ UNCHANGED result
    /\ UNCHANGED <<fontState, cmap, cache, made, renderVars, cropVars, call, calls,
                   idx, font_map, image, text, dirExists, files, inFlight>>

\* line 140: ddddocr.DdddOcr(...) may fail; line 142: font_map = {}
NewOcr(p) ==
    /\ pc[p] = "ocr"
    /\ \E ok \in BOOLEAN :
         IF ok
         THEN pc' = [pc EXCEPT ![p] = "loop"] /\ UNCHANGED result
         ELSE Raise(p, "OcrInitError")
    /\ UNCHANGED <<fontState, cmap, cache, made, renderVars, cropVars, call, calls,
                   idx, font_map, image, text, hist, dirExists, files, inFlight>>

\* line 145: the for statement takes the next entry; lines 172-175 when exhausted
ForNext(p) ==
    /\ pc[p] = "loop"
    /\ IF idx[p] < Len(cmap)
       THEN /\ idx' = [idx EXCEPT ![p] = @ + 1]
            /\ pc' = [pc EXCEPT ![p] = "render"]
            /\ UNCHANGED result
       ELSE /\ pc' = [pc EXCEPT ![p] = "returned"]
            /\ result' = [result EXCEPT ![p] = "font_map"]
            /\ UNCHANGED idx
    /\ UNCHANGED <<fontState, cmap, cache, made, renderVars, cropVars, call, calls,
                   font_map, image, text, hist, dirExists, files, inFlight>>

\* line 151: image = convert_cmap_to_image(cmap_code, font_path, image_size)
Render(p) ==
    /\ pc[p] = "render"
    /\ \E io \in IoOutcomes :
         LET a == <<Entry(p)[1], call[p].font_path, call[p].image_size>>
             r == CachedCall(cache[p], a, fontState, io, made[p] + 1)
             ok == r.out.err = "none"
         IN
         /\ cache' = [cache EXCEPT ![p] = r.cache]
         /\ made' = [made EXCEPT ![p] = IF ok /\ ~r.hit THEN @ + 1 ELSE @]
         /\ image' = [image EXCEPT ![p] = IF ok THEN r.out.img ELSE @]
         /\ hist' = [hist EXCEPT ![p][idx[p]].renders = @ + 1,
                                 ![p][idx[p]].render = IF ok THEN "ok" ELSE "fail"]
         /\ pc' = [pc EXCEPT ![p] = IF ok THEN "cache" ELSE "except"]
    /\ UNCHANGED <<fontState, cmap, renderVars, cropVars, call, calls, idx,
                   font_map, text, result, dirExists, files, inFlight>>

\* lines 154-157: if cache_dir: ... if not os.path.exists(cache_path):
CacheCheck(p) ==
    /\ pc[p] = "cache"
    /\ LET f == CachePath(Entry(p)[1], Entry(p)[2]) IN
       IF call[p].cache_dir = None
       THEN /\ pc' = [pc EXCEPT ![p] = "classify"]
            /\ hist' = Note(p, "write", "skip")
       ELSE IF files[f].writes > 0
       THEN /\ pc' = [pc EXCEPT ![p] = "classify"]
            /\ hist' = Note(p, "write", "exists")
       ELSE /\ pc' = [pc EXCEPT ![p] = "save"]
            /\ UNCHANGED hist
    /\ UNCHANGED <<fontState, cmap, cache, made, renderVars, cropVars, call, calls,
                   idx, font_map, image, text, result, dirExists, files, inFlight>>

\* line 158: image.save(cache_path, "PNG") creates or truncates the file
CacheSave(p) ==
    /\ pc[p] = "save"
    /\ LET f == CachePath(Entry(p)[1], Entry(p)[2]) IN
       \E ok \in BOOLEAN :
         IF ok
         THEN /\ files' = [files EXCEPT ![f] = [img |-> image[p], writes |-> @.writes + 1]]
              /\ hist' = Note(p, "write", "ok")
              /\ pc' = [pc EXCEPT ![p] = "classify"]
         ELSE /\ hist' = Note(p, "write", "fail")
              /\ pc' = [pc EXCEPT ![p] = "except"]
              /\ UNCHANGED files
    /\ UNCHANGED <<fontState, cmap, cache, made, renderVars, cropVars, call, calls,
                   idx, font_map, image, text, result, dirExists, inFlight>>

\* lines 161-163: the PNG bytes go to ocr.classification, which is entered ...
ClassifyBegin(p) ==
    /\ pc[p] = "classify"
    /\ inFlight' = [inFlight EXCEPT ![p] = @ + 1]
    /\ hist' = [hist EXCEPT ![p][idx[p]].classifies = @ + 1]
    /\ pc' = [pc EXCEPT ![p] = "ocr_wait"]
    /\ UNCHANGED <<fontState, cmap, cache, made, renderVars, cropVars, call, calls,
                   idx, font_map, image, text, result, dirExists, files>>

\* ... and returns a string or raises
ClassifyEnd(p) ==
    /\ pc[p] = "ocr_wait"
    /\ inFlight' = [inFlight EXCEPT ![p] = @ - 1]
    /\ \/ \E t \in Texts :
            /\ text' = [text EXCEPT ![p] = t]
            /\ hist' = [hist EXCEPT ![p][idx[p]].classify = "ok",
                                    ![p][idx[p]].text = t]
            /\ pc' = [pc EXCEPT ![p] = "store"]
       \/ /\ hist' = Note(p, "classify", "fail")
          /\ pc' = [pc EXCEPT ![p] = "except"]
          /\ UNCHANGED text
    /\ UNCHANGED <<fontState, cmap, cache, made, renderVars, cropVars, call, calls,
                   idx, font_map, image, result, dirExists, files>>

\* line 166: font_map[glyph_name] = text
Store(p) ==
    /\ pc[p] = "store"
    /\ font_map' = [font_map EXCEPT ![p] = Put(@, Entry(p)[2], text[p])]
    /\ hist' = Note(p, "done", TRUE)
    /\ pc' = [pc EXCEPT ![p] = "loop"]
    /\ UNCHANGED <<fontState, cmap, cache, made, renderVars, cropVars, call, calls,
                   idx, image, text, result, dirExists, files, inFlight>>

\* variant: the handler only logs and records nothing
ExceptSkip(p) ==
    /\ pc[p] = "except"
    /\ hist' = Note(p, "done", TRUE)
    /\ pc' = [pc EXCEPT ![p] = "loop"]
    /\ UNCHANGED <<fontState, cmap, cache, made, renderVars, cropVars, call, calls,
                   idx, font_map, image, text, result, dirExists, files, inFlight>>

\* variant: the handler tries the same entry again
ExceptRetry(p) ==
    /\ pc[p] = "except"
    /\ pc' = [pc EXCEPT ![p] = "render"]
    /\ UNCHANGED <<fontState, cmap, cache, made, renderVars, cropVars, call, calls,
                   idx, font_map, image, text, hist, result, dirExists, files, inFlight>>

\* lines 168-170: except Exception: font_map[glyph_name] = ""
Except(p) ==
    /\ pc[p] = "except"
    /\ font_map' = [font_map EXCEPT ![p] = Put(@, Entry(p)[2], "")]
    /\ hist' = Note(p, "done", TRUE)
    /\ pc' = [pc EXCEPT ![p] = "loop"]
    /\ UNCHANGED <<fontState, cmap, cache, made, renderVars, cropVars, call, calls,
                   idx, image, text, result, dirExists, files, inFlight>>

Step(p) ==
    \/ \E size \in ExplicitSizes, dir \in {None, CacheDir} : Start(p, size, dir)
    \/ CheckFont(p)
    \/ MakeCacheDir(p)
    \/ LoadFont(p)
    \/ NewOcr(p)
    \/ ForNext(p)
    \/ Render(p)
    \/ CacheCheck(p)
    \/ CacheSave(p)
    \/ ClassifyBegin(p)
    \/ ClassifyEnd(p)
    \/ Store(p)
    \/ Except(p)

----------------------------------------------------------------------------
(* Initial states *)

FontStates == {"missing", "corrupt", "ok"}

\* character maps: codepoints are unique keys, glyph names need not be unique
Cmaps ==
    UNION { [1..n -> GlyphNames] : n \in 0..MaxEntries }

CmapOf(names) == [i \in 1..Len(names) |-> <<i - 1, names[i]>>]

NoArgs == [font_path |-> FontPath, image_size |-> DefaultSize, cache_dir |-> None]
FileNames == { CachePath(i - 1, g) : i \in 1..MaxEntries, g \in GlyphNames }

InitCommon ==
    /\ cache = [p \in Procs |-> <<>>]
    /\ made = [p \in Procs |-> 0]
    /\ log = <<>>
    /\ lastCall = NoCall
    /\ call = [p \in Procs |-> NoArgs]
    /\ idx = [p \in Procs |-> 0]
    /\ font_map = [p \in Procs |-> EmptyMap]
    /\ image = [p \in Procs |-> NoImg]
    /\ text = [p \in Procs |-> ""]
    /\ hist = [p \in Procs |-> <<>>]
    /\ result = [p \in Procs |-> "none"]
    /\ dirExists = FALSE
    /\ files = [f \in FileNames |-> NoFile]
    /\ inFlight = [p \in Procs |-> 0]

InitCrop ==
    /\ InitCommon
    /\ fontState = "ok"
    /\ cmap = <<>>
    /\ calls = [p \in Procs |-> 0]
    /\ pc = [p \in Procs |-> "off"]
    /\ \E s \in 1..MaxImgSize :
         \E B \in NonEmptyBoxes(s) \cup {NoBox} : cropIn = [size |-> s, bbox |-> B]
    /\ cropOut = NoCrop

NextCrop == Rasterize

SpecCrop == InitCrop /\ [][NextCrop]_vars

InitRender ==
    /\ InitCommon
    /\ fontState \in FontStates
    /\ cmap = <<>>
    /\ calls = [p \in Procs |-> 0]
    /\ pc = [p \in Procs |-> "off"]
    /\ cropIn = [size |-> 0, bbox |-> NoBox]
    /\ cropOut = NoCrop

NextRender ==
    \/ \E a \in ArgTuples : RenderCall("p1", a)
    \/ \E s \in FontStates : SetFont(s)

SpecRender == InitRender /\ [][NextRender]_vars

InitExtract ==
    /\ InitCommon
    /\ fontState \in FontStates
    /\ cmap \in { CmapOf(n) : n \in Cmaps }
    /\ calls = [p \in Procs |-> 0]
    /\ pc = [p \in Procs |-> IF p = "p1" THEN "idle" ELSE "off"]
    /\ cropIn = [size |-> 0, bbox |-> NoBox]
    /\ cropOut = NoCrop

NextExtract == \E p \in Procs : Step(p)

SpecExtract == InitExtract /\ [][NextExtract]_vars

\* two processes, one call each, on a parsable font
InitShared ==
    /\ InitCommon
    /\ fontState = "ok"
    /\ cmap \in { CmapOf(n) : n \in Cmaps }
    /\ calls = [p \in Procs |-> MaxExtractCalls - 1]
    /\ pc = [p \in Procs |-> "idle"]
    /\ cropIn = [size |-> 0, bbox |-> NoBox]
    /\ cropOut = NoCrop

SpecShared == InitShared /\ [][NextExtract]_vars

----------------------------------------------------------------------------
(* Claims about the crop geometry (SpecCrop) *)

Cropped == cropOut # NoCrop /\ ~cropOut.blank

\* twice the distance between the centres of rectangle C and rectangle B, per axis
CentreGap2X(C, B) ==
    LET d == (C[1] + C[3]) - (B[1] + B[3]) IN IF d >= 0 THEN d ELSE -d
CentreGap2Y(C, B) ==
    LET d == (C[2] + C[4]) - (B[2] + B[4]) IN IF d >= 0 THEN d ELSE -d

LongSide(B) == Max2(B[3] - B[1], B[4] - B[2])

\* centre within one pixel on both axes, and half the crop's width and half its
\* height at least half the longer side of B
CentredOn(C, B) ==
    /\ CentreGap2X(C, B) <= 2
    /\ CentreGap2Y(C, B) <= 2
    /\ C[3] - C[1] >= LongSide(B)
    /\ C[4] - C[2] >= LongSide(B)

\* the square of half-extent max(w,h)//2 + size//10 around the floored centre of B
\* lies on the canvas, so that no side of the crop is clamped
FitsCanvas(B, size) ==
    LET half == LongSide(B) \div 2 + size \div 10
        cx   == (B[1] + B[3]) \div 2
        cy   == (B[2] + B[4]) \div 2
    IN  /\ cx - half >= 0 /\ cy - half >= 0
        /\ cx + half <= 2 * size /\ cy + half <= 2 * size

----------------------------------------------------------------------------
(* Claims about convert_cmap_to_image (SpecRender) *)

Called == lastCall # NoCall

\* the successful calls that came before the last call
Prior == IF lastCall.err = "none" THEN SubSeq(log, 1, Len(log) - 1) ELSE log

SameRender(a, b) == a[1] = b[1] /\ a[2] = b[2] /\ EffSize(a) = EffSize(b)

\* C5 as stated: a call whose (codepoint, fontPath, size) equals that of an
\* earlier successful call returns the bitmap that call returned, without
\* rasterizing again.
C5_MemoAlways ==
    Called =>
        \A i \in 1..Len(Prior) :
            SameRender(Prior[i].args, lastCall.args) =>
                /\ lastCall.err = "none"
                /\ lastCall.img = Prior[i].img
                /\ ~lastCall.raster

\* the positions of the successful calls made with exactly the argument tuple a
SameArgs(S, a) == { i \in 1..Len(S) : S[i].args = a }

Latest(I) == CHOOSE i \in I : \A j \in I : j <= i

\* the distinct other argument tuples called successfully after position i
OthersSince(S, i, a) == { S[j].args : j \in (i + 1)..Len(S) } \ {a}

\* C5 amended: a call passing the same argument tuple as an earlier successful
\* call, with fewer than maxsize distinct other argument tuples called
\* successfully since the latest such call, returns the bitmap that call
\* returned, without rasterizing again.
C5_MemoWhileCached ==
    (Called /\ SameArgs(Prior, lastCall.args) # {}) =>
        LET i == Latest(SameArgs(Prior, lastCall.args)) IN
        Cardinality(OthersSince(Prior, i, lastCall.args)) < maxsize =>
            /\ lastCall.err = "none"
            /\ lastCall.img = Prior[i].img
            /\ ~lastCall.raster

C5_Witness ==
    /\ Called
    /\ SameArgs(Prior, lastCall.args) # {}
    /\ LET i == Latest(SameArgs(Prior, lastCall.args)) IN
       /\ Cardinality(OthersSince(Prior, i, lastCall.args)) = maxsize - 1
       /\ maxsize > 1
       /\ lastCall.img = Prior[i].img
    /\ lastCall.hit
    /\ Len(Prior) > maxsize

\* C6 as stated: a call made while the font file does not exist fails with
\* FileNotFoundError, a call with a negative codepoint fails (with ValueError
\* when the file exists), and neither returns a bitmap - whatever was rendered
\* before.
C6_ValidationAlways ==
    Called =>
        /\ lastCall.font = "missing" =>
               lastCall.err = "FileNotFoundError" /\ lastCall.img = NoImg
        /\ (lastCall.args[1] < 0 /\ lastCall.font # "missing") =>
               lastCall.err = "ValueError" /\ lastCall.img = NoImg

\* C7 as stated (convert_cmap_to_image): a call that rasterized returns the
\* bitmap whether or not the write to ./imgs/<code>.png succeeded.
C7_SaveBestEffort ==
    (Called /\ lastCall.raster) => (lastCall.err = "none" /\ lastCall.img # NoImg)

----------------------------------------------------------------------------
(* Claims about extract_text_from_font (SpecExtract, SpecShared) *)

GlyphIds == { cmap[i][2] : i \in 1..Len(cmap) }

Returned(p) == pc[p] = "returned"

Succeeded(h) == h.render = "ok" /\ h.classify = "ok"
Failed(h) == h.render = "fail" \/ h.classify = "fail"

\* C1: whenever extract_text_from_font returns, the key set of the returned
\* mapping equals the set of glyph identifiers of the character map, whatever
\* failed per glyph.
C1_TotalCoverage ==
    \A p \in Procs : Returned(p) => DOMAIN font_map[p] = GlyphIds

C1_Witness ==
    /\ Returned("p1")
    /\ Len(cmap) = 2
    /\ Cardinality(GlyphIds) = 2
    /\ hist["p1"][1].render = "fail"
    /\ hist["p1"][2].classify = "fail"
    /\ DOMAIN font_map["p1"] = GlyphIds

\* the text the returned mapping holds for entry i is the classifier's string
\* when render and classification succeeded, "" when either failed
EntryTextAsClaimed(p, i) ==
    LET h == hist[p][i]
        g == cmap[i][2]
    IN  /\ h.done
        /\ g \in DOMAIN font_map[p]
        /\ Succeeded(h) => font_map[p][g] = h.text
        /\ Failed(h) => font_map[p][g] = ""

\* C2 as stated: in the returned mapping every entry of the character map has
\* the classifier's string when its render and classification succeeded and ""
\* when one of them failed, and every entry was processed.
C2_EveryEntryText ==
    \A p \in Procs : Returned(p) =>
        \A i \in 1..Len(cmap) : EntryTextAsClaimed(p, i)

Untouched(h) == h.renders = 0 /\ h.write = "none" /\ h.classifies = 0

\* C3: a call on a missing or unparsable font file raises, and when it raises no
\* entry has been rendered, written to the cache directory or classified, and
\* no mapping entry exists.
C3_FatalBeforeGlyphs ==
    \A p \in Procs :
        /\ Returned(p) => fontState = "ok"
        /\ (pc[p] = "raised" /\ fontState # "ok") =>
              /\ result[p] \in {"FileNotFoundError", "ValueError", "OSError"}
              /\ \A i \in DOMAIN hist[p] : Untouched(hist[p][i])
              /\ font_map[p] = EmptyMap
              /\ made[p] = 0
              /\ \A f \in FileNames : files[f] = NoFile

C3_Witness ==
    /\ pc["p1"] = "raised"
    /\ fontState = "corrupt"
    /\ result["p1"] = "ValueError"
    /\ call["p1"].cache_dir = CacheDir
    /\ dirExists
    /\ Len(cmap) = 2

\* C4 as stated: the call raises only for font-level failures - when the font
\* file exists and parses the call does not raise.
C4_RaisesOnlyForFont ==
    \A p \in Procs : pc[p] = "raised" => fontState # "ok"

\* C8 as stated: a cache file, once created, is never written again.
C8_WriteOnce ==
    \A f \in FileNames : files[f].writes <= 1

\* C10: within a call an entry is rendered at most once and classified at most
\* once, classification only follows a successful render and the cache step,
\* no step of a later entry happens before the earlier entry is finished, and at
\* most one classification is in flight.
C10_Sequential ==
    \A p \in Procs :
        /\ inFlight[p] <= 1
        /\ \A i \in DOMAIN hist[p] :
             LET h == hist[p][i] IN
             /\ h.renders <= 1
             /\ h.classifies <= 1
             /\ h.write # "none" => h.render = "ok"
             /\ h.classifies > 0 => h.render = "ok" /\ h.write \in {"skip", "exists", "ok"}
             /\ h.render = "fail" => h.classifies = 0
             /\ \A j \in DOMAIN hist[p] : (i < j /\ ~Untouched(hist[p][j])) => h.done

C10_Witness ==
    /\ Returned("p1")
    /\ Len(cmap) = 2
    /\ hist["p1"][1].render = "fail" /\ hist["p1"][1].classifies = 0
    /\ hist["p1"][2].write = "ok" /\ hist["p1"][2].classifies = 1
    /\ hist["p1"][2].classify = "fail"

====
